---- MODULE Spec2Model ----
(***************************************************************************)
(* A model of tapas (src/tapas.py): the command-line front end of the tap  *)
(* trainer.  The persistent state is the directory tree under ~/.tapas;    *)
(* every command-line invocation is main(argv): ensure_dirs, parse_args,   *)
(* the handler, and the exit status.                                       *)
(*                                                                         *)
(* Conventions                                                             *)
(*  - an optional value is [given, v]; Python's None is "not given";       *)
(*  - a handler's return value is [int, v]: int = FALSE models None;       *)
(*  - floats that the program only passes through are integers here:      *)
(*    bpm in BPM, swing in tenths, minutes in minutes;                     *)
(*  - a meter string "N/D" is the record [num |-> N, den |-> D]: the       *)
(*    program never parses it, it is handed on as it was typed;            *)
(*  - a handler is modelled as the list of its effects in program order    *)
(*    (mkdir, file writes, prints) and its return value.                   *)
(***************************************************************************)
EXTENDS Integers, Sequences, FiniteSets, TLC

VARIABLES fs, argv, handler, ret, exit, out, created, pc, todo, interrupted, procs

vars == <<fs, argv, handler, ret, exit, out, created, pc, todo, interrupted, procs>>

(***************************************************************************)
(* Bounds of the model.                                                    *)
(***************************************************************************)
\* stdin lines tap_tempo reads at most (taps and the terminating empty line)
MaxLines == 4
\* perf_counter readings are ticks 1..MaxTick of 100 ms
MaxTick == 5

(***************************************************************************)
(* Values.                                                                 *)
(***************************************************************************)
Names == {"a", "b"}
\* sorted(...) of preset_list: the names in lexicographic order
NameOrder == <<"a", "b">>
Devices == {"mic"}

Meter(n, d) == [num |-> n, den |-> d]
AbsentInt == [given |-> FALSE, v |-> 0]
AbsentStr == [given |-> FALSE, v |-> ""]
AbsentMeter == [given |-> FALSE, v |-> Meter(0, 0)]
Given(x) == [given |-> TRUE, v |-> x]

NoneVal == [int |-> FALSE, v |-> 0]
IntVal(n) == [int |-> TRUE, v |-> n]

\* the supported subdivisions and the preset constraints of the data model
SupportedSubdiv == {1, 2, 3, 4, 6}

(***************************************************************************)
(* The file system under HOME (lines 7-11).                                *)
(*   dirs    : the directories that exist                                  *)
(*   config  : whether config.json exists                                  *)
(*   calib   : calibration.json, its "devices" map (device -> offset, ms)  *)
(*   presets : presets/<name>.json, a partial map name -> preset record    *)
(***************************************************************************)
NoDevices == [d \in {} |-> 0]
NoPresets == [n \in {} |-> 0]

FreshFs ==
    [dirs |-> {}, config |-> FALSE,
     calib |-> [exists |-> FALSE, devices |-> NoDevices],
     presets |-> NoPresets]

\* a home directory in which the calibration collaborator has stored an offset
CalibratedFs ==
    [dirs |-> {"home", "presets", "attempts"}, config |-> TRUE,
     calib |-> [exists |-> TRUE, devices |-> [d \in Devices |-> 12]],
     presets |-> NoPresets]

(***************************************************************************)
(* Effects, and what each does to the file system.                         *)
(***************************************************************************)
Mkdir(d) == [op |-> "mkdir", dir |-> d]
WriteConfig == [op |-> "write_config"]
WriteCalib(devs) == [op |-> "write_calib", devices |-> devs]
WritePreset(n, rec) == [op |-> "write_preset", name |-> n, rec |-> rec]
PrintLine(stream, line) == [op |-> "print", stream |-> stream, line |-> line]

ApplyEffect(f, e) ==
    CASE e.op = "mkdir" -> [f EXCEPT !.dirs = @ \cup {e.dir}]
      [] e.op = "write_config" -> [f EXCEPT !.config = TRUE]
      [] e.op = "write_calib" ->
            [f EXCEPT !.calib = [exists |-> TRUE, devices |-> e.devices]]
      [] e.op = "write_preset" ->
            [f EXCEPT !.presets =
                [n \in (DOMAIN @) \cup {e.name} |->
                    IF n = e.name THEN e.rec ELSE @[n]]]
      [] OTHER -> f

RECURSIVE ApplyAll(_, _)
ApplyAll(f, es) ==
    IF es = <<>> THEN f ELSE ApplyAll(ApplyEffect(f, Head(es)), Tail(es))

\* the lines an effect list prints, in order
RECURSIVE Printed(_)
Printed(es) ==
    IF es = <<>> THEN <<>>
    ELSE IF Head(es).op = "print"
         THEN <<Head(es).line>> \o Printed(Tail(es))
         ELSE Printed(Tail(es))

(***************************************************************************)
(* ensure_dirs (lines 13-21).                                              *)
(***************************************************************************)
ensure_dirs_clobber(f) ==
    <<Mkdir("presets"), Mkdir("attempts"), Mkdir("home")>>
    \o (IF ~f.config THEN <<WriteConfig>> ELSE <<>>)
    \o <<WriteCalib(NoDevices)>>

ensure_dirs(f) ==
    <<Mkdir("presets"), Mkdir("attempts"), Mkdir("home")>>
    \o (IF ~f.config THEN <<WriteConfig>> ELSE <<>>)
    \o (IF ~f.calib.exists THEN <<WriteCalib(NoDevices)>> ELSE <<>>)

(***************************************************************************)
(* The handlers (lines 24-100).  Each gives its effects and return value.  *)
(***************************************************************************)
Result(es, rc) == [effects |-> es, rc |-> rc]

\* lines 24-26: a single print of its arguments, returns None
run_metronome(bpm, meter, subdiv, swing, count_in, bars, minutes, beep, accent) ==
    Result(<<PrintLine("stdout", <<"[metronome]", bpm, meter, subdiv, swing, bars, minutes>>)>>,
           NoneVal)

\* lines 34-41
PresetRecord(name, time_sig, bars, subdivision) ==
    [name |-> name, tempo |-> 100, time_sig |-> time_sig, bars |-> bars,
     subdivision |-> subdivision, notes |-> <<>>]

\* lines 28-46 without the existence check of lines 31-33
preset_new_overwrite(f, name, time_sig, bars, subdivision, interactive) ==
    Result(ensure_dirs(f)
             \o (IF interactive THEN <<PrintLine("stdout", <<"Interactive mode not implemented">>)>>
                 ELSE <<>>)
             \o <<WritePreset(name, PresetRecord(name, time_sig, bars, subdivision)),
                  PrintLine("stdout", <<"Created", name>>)>>,
           IntVal(0))

\* lines 28-46
preset_new(f, name, time_sig, bars, subdivision, interactive) ==
    LET f1 == ApplyAll(f, ensure_dirs(f))
    IN  IF name \in DOMAIN f1.presets
        THEN Result(ensure_dirs(f) \o <<PrintLine("stdout", <<"Preset exists", name>>)>>,
                    IntVal(1))
        ELSE Result(ensure_dirs(f)
                      \o (IF interactive
                          THEN <<PrintLine("stdout", <<"Interactive mode not implemented">>)>>
                          ELSE <<>>)
                      \o <<WritePreset(name, PresetRecord(name, time_sig, bars, subdivision)),
                           PrintLine("stdout", <<"Created", name>>)>>,
                    IntVal(0))

\* lines 48-52: prints the sorted file names, returns None
preset_list(f) ==
    LET f1 == ApplyAll(f, ensure_dirs(f))
        items == SelectSeq(NameOrder, LAMBDA n : n \in DOMAIN f1.presets)
    IN  Result(ensure_dirs(f)
                 \o [i \in 1..Len(items) |-> PrintLine("stdout", <<"item", items[i]>>)],
               NoneVal)

\* lines 54-61
preset_show(f, name) ==
    LET f1 == ApplyAll(f, ensure_dirs(f))
    IN  IF name \notin DOMAIN f1.presets
        THEN Result(ensure_dirs(f) \o <<PrintLine("stderr", <<"Not found", name>>)>>,
                    IntVal(1))
        ELSE Result(ensure_dirs(f) \o <<PrintLine("stdout", <<"json", f1.presets[name]>>)>>,
                    IntVal(0))

\* lines 63-65
preset_validate(f, name) == preset_show(f, name)

\* lines 67-69
practice_run(preset_name, bpm, bars, minutes, export, device) ==
    Result(<<PrintLine("stdout", <<"[practice]", preset_name, bpm, bars, minutes, device>>)>>,
           NoneVal)

\* lines 71-73
analyze_file(audio_path, preset_name, bpm, report) ==
    Result(<<PrintLine("stdout", <<"[analyze]", audio_path, preset_name, bpm, report>>)>>,
           NoneVal)

\* lines 75-77: prints only; the calibration file is not written
calibrate(device) ==
    Result(<<PrintLine("stdout", <<"[calibrate]", device>>)>>, NoneVal)

\* lines 98-100
report_history(preset, last, metric) ==
    Result(<<PrintLine("stdout", <<"[report]", preset, last, metric>>)>>, NoneVal)

(***************************************************************************)
(* tap_tempo (lines 79-96).  stdin is the sequence of lines read, each     *)
(* with the perf_counter reading taken right after it: [blank, now], now   *)
(* in ticks of 100 ms.  Readings of successive lines strictly increase     *)
(* (perf_counter is monotonic and a readline takes longer than its         *)
(* resolution).  End of input reads as a blank line.                       *)
(***************************************************************************)
\* lines 82-88: the readings of the lines before the first blank one
RECURSIVE ReadTaps(_)
ReadTaps(stdin) ==
    IF stdin = <<>> \/ Head(stdin).blank THEN <<>>
    ELSE <<Head(stdin).now>> \o ReadTaps(Tail(stdin))

\* line 92: zip(timestamp, timestamp[1:])
Intervals(timestamp) ==
    [i \in 1..(Len(timestamp) - 1) |-> timestamp[i + 1] - timestamp[i]]

\* line 93: list.sort(), as an insertion sort
RECURSIVE Insert(_, _)
Insert(x, s) ==
    IF s = <<>> THEN <<x>>
    ELSE IF x <= Head(s) THEN <<x>> \o s
    ELSE <<Head(s)>> \o Insert(x, Tail(s))

RECURSIVE Sort(_)
Sort(s) == IF s = <<>> THEN <<>> ELSE Insert(Head(s), Sort(Tail(s)))

\* line 94: intervals[len(intervals)//2], 0-based
Med(sorted) == sorted[(Len(sorted) \div 2) + 1]

\* round(n/d) to the nearest integer, ties to the even one (Python's round)
RoundDiv(n, d) ==
    LET q == n \div d
        r == n % d
    IN  IF 2 * r < d THEN q
        ELSE IF 2 * r > d THEN q + 1
        ELSE IF q % 2 = 0 THEN q ELSE q + 1

\* line 95: round(60.0 / med, 1), in tenths of a BPM, for med = n/d ticks
\* of 100 ms: 60 / (n/(10 d)) BPM = 6000 d / n tenths
BpmTenths(n, d) == RoundDiv(6000 * d, n)

tap_tempo(stdin) ==
    LET timestamp == ReadTaps(stdin)
        prompt == PrintLine("stdout", <<"Tap ENTER">>)
    IN  IF Len(timestamp) < 2
        THEN Result(<<prompt, PrintLine("stdout", <<"Not enough taps.">>)>>, NoneVal)
        ELSE Result(<<prompt,
                      PrintLine("stdout",
                                <<"BPM", BpmTenths(Med(Sort(Intervals(timestamp))), 1)>>)>>,
                    NoneVal)

(***************************************************************************)
(* build_parser / parse_args (lines 103-180).  A command line is a record  *)
(* of its sub-command and its options, each given or not.  The result is   *)
(* the handler to call and its namespace, or argparse's error (usage on    *)
(* stderr, exit status 2).  Option values are ones that pass argparse's    *)
(* type conversion (int, float).                                           *)
(***************************************************************************)
Default(opt, d) == IF opt.given THEN opt.v ELSE d

Parsed(func, a) == [ok |-> TRUE, func |-> func, a |-> a]
ParseError == [ok |-> FALSE, func |-> "", a |-> <<>>]

\* lines 108-121
parse_metronome(av) ==
    IF ~av.bpm.given THEN ParseError
    ELSE IF av.bars.given /\ av.minutes.given THEN ParseError
    ELSE Parsed("run_metronome",
                [bpm |-> av.bpm.v, meter |-> Default(av.meter, Meter(4, 4)),
                 subdiv |-> Default(av.subdiv, 1), swing |-> Default(av.swing, 0),
                 count_in |-> Default(av.count_in, 0), bars |-> av.bars,
                 minutes |-> av.minutes, beep |-> av.beep, accent |-> av.accent])

\* lines 124-144
parse_preset(av) ==
    CASE av.preset_cmd = "new" ->
            IF ~av.name.given THEN ParseError
            ELSE Parsed("preset_new",
                        [name |-> av.name.v, time_sig |-> Default(av.meter, Meter(4, 4)),
                         bars |-> Default(av.bars, 4),
                         subdivision |-> Default(av.subdivision, 4),
                         interactive |-> av.interactive])
      [] av.preset_cmd = "list" -> Parsed("preset_list", <<>>)
      [] av.preset_cmd = "show" ->
            IF ~av.name.given THEN ParseError
            ELSE Parsed("preset_show", [name |-> av.name.v])
      [] av.preset_cmd = "validate" ->
            IF ~av.name.given THEN ParseError
            ELSE Parsed("preset_validate", [name |-> av.name.v])
      [] OTHER -> ParseError

\* lines 147-154: --bars and --minutes are two independent options
parse_practice(av) ==
    IF ~av.preset.given THEN ParseError
    ELSE Parsed("practice_run",
                [preset |-> av.preset.v, bpm |-> av.bpm, bars |-> av.bars,
                 minutes |-> av.minutes, export |-> Default(av.export, "json,csv"),
                 device |-> av.device])

\* lines 157-162
parse_analyze(av) ==
    IF ~av.audio.given \/ ~av.preset.given THEN ParseError
    ELSE IF av.report.given /\ av.report.v \notin {"summary", "detailed"} THEN ParseError
    ELSE Parsed("analyze_file",
                [audio |-> av.audio.v, preset |-> av.preset.v, bpm |-> av.bpm,
                 report |-> Default(av.report, "summary")])

\* lines 174-178
parse_report(av) ==
    IF av.metric.given /\ av.metric.v \notin {"score", "mean_err", "variance"}
    THEN ParseError
    ELSE Parsed("report_history",
                [preset |-> av.preset, last |-> Default(av.last, 30),
                 metric |-> Default(av.metric, "score")])

\* lines 103-180; line 105: the sub-command is required
parse_args(av) ==
    CASE av.cmd = "metronome" -> parse_metronome(av)
      [] av.cmd = "preset" -> parse_preset(av)
      [] av.cmd = "practice" -> parse_practice(av)
      [] av.cmd = "analyze" -> parse_analyze(av)
      [] av.cmd = "calibrate" -> Parsed("calibrate", [device |-> av.device])
      [] av.cmd = "tap-tempo" -> Parsed("tap_tempo", <<>>)
      [] av.cmd = "report" -> parse_report(av)
      [] OTHER -> ParseError

\* args.func(args): the lambdas of set_defaults (lines 119, 133, 136, 140,
\* 144, 154, 162, 167, 171, 178); stdin is what the process reads
Dispatch(func, a, f, stdin) ==
    CASE func = "run_metronome" ->
            run_metronome(a.bpm, a.meter, a.subdiv, a.swing, a.count_in, a.bars,
                          a.minutes, a.beep, a.accent)
      [] func = "preset_new" ->
            preset_new(f, a.name, a.time_sig, a.bars, a.subdivision, a.interactive)
      [] func = "preset_list" -> preset_list(f)
      [] func = "preset_show" -> preset_show(f, a.name)
      [] func = "preset_validate" -> preset_validate(f, a.name)
      [] func = "practice_run" ->
            practice_run(a.preset, a.bpm, a.bars, a.minutes, a.export, a.device)
      [] func = "analyze_file" -> analyze_file(a.audio, a.preset, a.bpm, a.report)
      [] func = "calibrate" -> calibrate(a.device)
      [] func = "tap_tempo" -> tap_tempo(stdin)
      [] func = "report_history" -> report_history(a.preset, a.last, a.metric)

(***************************************************************************)
(* main (lines 182-192), run to its end without an interrupt.              *)
(***************************************************************************)
ExitStatus_zero(rc) == 0

\* lines 188-189: sys.exit(rc) for an int; falling off the end exits 0
ExitStatus(rc) == IF rc.int THEN rc.v ELSE 0

main(f, av) ==
    LET boot == ensure_dirs(f)
        p == parse_args(av)
    IN  IF ~p.ok
        THEN [effects |-> boot \o <<PrintLine("stderr", <<"usage">>)>>,
              handler |-> "", ret |-> NoneVal, exit |-> 2]
        ELSE LET h == Dispatch(p.func, p.a, ApplyAll(f, boot), av.stdin)
             IN  [effects |-> boot \o h.effects, handler |-> p.func,
                  ret |-> h.rc, exit |-> ExitStatus(h.rc)]

(***************************************************************************)
(* The command lines the model draws from.                                 *)
(***************************************************************************)
NoStdin == <<>>

MetronomeBase ==
    [cmd |-> "metronome", preset_cmd |-> "", stdin |-> NoStdin,
     bpm |-> Given(120), meter |-> AbsentMeter, subdiv |-> AbsentInt,
     swing |-> AbsentInt, count_in |-> AbsentInt, bars |-> AbsentInt,
     minutes |-> AbsentInt, beep |-> FALSE, accent |-> AbsentStr]

\* one option at a time away from a valid command line
MetronomeOptions ==
    {MetronomeBase,
     [MetronomeBase EXCEPT !.bpm = AbsentInt],
     [MetronomeBase EXCEPT !.bpm = Given(0)],
     [MetronomeBase EXCEPT !.bpm = Given(-60)],
     [MetronomeBase EXCEPT !.meter = Given(Meter(7, 8))],
     [MetronomeBase EXCEPT !.meter = Given(Meter(0, 4))],
     [MetronomeBase EXCEPT !.meter = Given(Meter(4, 0))],
     [MetronomeBase EXCEPT !.subdiv = Given(2), !.swing = Given(6)],
     [MetronomeBase EXCEPT !.subdiv = Given(5)],
     [MetronomeBase EXCEPT !.swing = Given(10)],
     [MetronomeBase EXCEPT !.swing = Given(-1)]}

MetronomeArgvs ==
    {[m EXCEPT !.bars = b, !.minutes = mi] :
        m \in MetronomeOptions, b \in {AbsentInt, Given(2)}, mi \in {AbsentInt, Given(1)}}

PresetNewBase(n) ==
    [cmd |-> "preset", preset_cmd |-> "new", stdin |-> NoStdin, name |-> n,
     meter |-> AbsentMeter, bars |-> AbsentInt, subdivision |-> AbsentInt,
     interactive |-> FALSE]

PresetNewArgvs ==
    {PresetNewBase(AbsentStr)}
    \cup UNION {{PresetNewBase(Given(n)),
                 [PresetNewBase(Given(n)) EXCEPT !.interactive = TRUE],
                 [PresetNewBase(Given(n)) EXCEPT !.meter = Given(Meter(0, 4))],
                 [PresetNewBase(Given(n)) EXCEPT !.bars = Given(0)],
                 [PresetNewBase(Given(n)) EXCEPT !.subdivision = Given(5)]} : n \in Names}

PresetNameArgvs(sub) ==
    {[cmd |-> "preset", preset_cmd |-> sub, stdin |-> NoStdin, name |-> n] :
        n \in {AbsentStr} \cup {Given(x) : x \in Names}}

PresetListArgv == [cmd |-> "preset", preset_cmd |-> "list", stdin |-> NoStdin]

PracticeArgvs ==
    {[cmd |-> "practice", preset_cmd |-> "", stdin |-> NoStdin, preset |-> p,
      bpm |-> AbsentInt, bars |-> b, minutes |-> mi, export |-> AbsentStr,
      device |-> AbsentStr] :
        p \in {AbsentStr, Given("a")}, b \in {AbsentInt, Given(2)},
        mi \in {AbsentInt, Given(1)}}

AnalyzeArgvs ==
    {[cmd |-> "analyze", preset_cmd |-> "", stdin |-> NoStdin, audio |-> au,
      preset |-> Given("a"), bpm |-> AbsentInt, report |-> r] :
        au \in {AbsentStr, Given("take.wav")},
        r \in {AbsentStr, Given("detailed"), Given("full")}}

CalibrateArgvs ==
    {[cmd |-> "calibrate", preset_cmd |-> "", stdin |-> NoStdin, device |-> d] :
        d \in {AbsentStr} \cup {Given(x) : x \in Devices}}

ReportArgvs ==
    {[cmd |-> "report", preset_cmd |-> "", stdin |-> NoStdin, preset |-> AbsentStr,
      last |-> AbsentInt, metric |-> m] :
        m \in {AbsentStr, Given("variance"), Given("median")}}

\* the sub-command is missing
NoCommandArgv == [cmd |-> "", preset_cmd |-> "", stdin |-> NoStdin]

\* a set of ticks as the increasing sequence of its elements
RECURSIVE Ascending(_)
Ascending(S) ==
    IF S = {} THEN <<>>
    ELSE LET m == CHOOSE x \in S : \A y \in S : x <= y
         IN  <<m>> \o Ascending(S \ {m})

\* the lines typed: taps at increasing readings, then the blank line
Typed(ticks) ==
    [i \in 1..Len(ticks) |-> [blank |-> (i = Len(ticks)), now |-> ticks[i]]]

Stdins ==
    {Typed(Ascending(S)) : S \in {T \in SUBSET (1..MaxTick) : Cardinality(T) \in 1..MaxLines}}

TapTempoArgvs == {[cmd |-> "tap-tempo", preset_cmd |-> "", stdin |-> s] : s \in Stdins}

(***************************************************************************)
(* The sequential system: one command line after the other, each run to    *)
(* its end.                                                                *)
(***************************************************************************)
\* the processes of the concurrent system, and a process that has not started
NumProcs == 2
Procs == 1..NumProcs
NotStarted == [pc |-> "idle", a |-> <<>>, rc |-> NoneVal, out |-> <<>>]

Init ==
    /\ fs \in {FreshFs, CalibratedFs}
    /\ argv = NoCommandArgv
    /\ handler = ""
    /\ ret = NoneVal
    /\ exit = 0
    /\ out = <<>>
    /\ created = NoPresets
    /\ pc = "idle"
    /\ todo = Result(<<>>, NoneVal)
    /\ interrupted = FALSE
    /\ procs = [p \in Procs |-> NotStarted]

\* the record a successful preset_new is asked to write (lines 34-41)
Asked(av) ==
    LET a == parse_args(av).a
    IN  PresetRecord(a.name, a.time_sig, a.bars, a.subdivision)

\* history: the first record created under each name
Remember(c, av, r) ==
    IF r.handler = "preset_new" /\ r.ret = IntVal(0) /\ av.name.v \notin DOMAIN c
    THEN [n \in (DOMAIN c) \cup {av.name.v} |-> IF n = av.name.v THEN Asked(av) ELSE c[n]]
    ELSE c

\* no command is running
Ready == pc = "idle"

\* main(argv), lines 182-192, from its first line to the exit
Run(av) ==
    \E r \in {main(fs, av)} :
        /\ fs' = ApplyAll(fs, r.effects)
        /\ argv' = av
        /\ handler' = r.handler
        /\ ret' = r.ret
        /\ exit' = r.exit
        /\ out' = Printed(r.effects)
        /\ created' = Remember(created, av, r)
        /\ UNCHANGED <<pc, todo, interrupted, procs>>

Metronome == \E av \in MetronomeArgvs : Ready /\ Run(av)

PresetNew == \E av \in PresetNewArgvs : Ready /\ Run(av)

PresetList == Ready /\ Run(PresetListArgv)

PresetShow == \E av \in PresetNameArgvs("show") : Ready /\ Run(av)

PresetValidate == \E av \in PresetNameArgvs("validate") : Ready /\ Run(av)

Practice == \E av \in PracticeArgvs : Ready /\ Run(av)

Analyze == \E av \in AnalyzeArgvs : Ready /\ Run(av)

Calibrate == \E av \in CalibrateArgvs : Ready /\ Run(av)

TapTempo == \E av \in TapTempoArgvs : Ready /\ Run(av)

Report == \E av \in ReportArgvs : Ready /\ Run(av)

NoCommand == Ready /\ Run(NoCommandArgv)

Next ==
    \/ Metronome
    \/ PresetNew
    \/ PresetList
    \/ PresetShow
    \/ PresetValidate
    \/ Practice
    \/ Analyze
    \/ Calibrate
    \/ TapTempo
    \/ Report
    \/ NoCommand

Spec == Init /\ [][Next]_vars

(***************************************************************************)
(* One command, statement by statement, with a process interrupt.          *)
(* KeyboardInterrupt is raised in the main thread between two statements;  *)
(* lines 186-192 catch it inside the try only.                             *)
(***************************************************************************)
IntArgvs ==
    {MetronomeBase, PresetListArgv, NoCommandArgv,
     PresetNewBase(Given("a")),
     [PresetNewBase(Given("b")) EXCEPT !.interactive = TRUE],
     [cmd |-> "preset", preset_cmd |-> "show", stdin |-> NoStdin, name |-> Given("a")],
     [cmd |-> "tap-tempo", preset_cmd |-> "", stdin |-> Typed(<<1, 3, 4>>)]}

\* where control goes when KeyboardInterrupt is raised at p, had the handler
\* caught it and carried on
OnInterrupt_swallow(p) == p

\* where control goes when KeyboardInterrupt is raised at p: the try of
\* lines 186-189 covers the handler call and sys.exit(rc); ensure_dirs and
\* parse_args (lines 183-185) are outside it
OnInterrupt(p) == IF p \in {"handler", "returned"} THEN "except" ELSE "uncaught"

\* the command starts: line 183 is about to run
IStart ==
    \E av \in IntArgvs :
        /\ pc \in {"idle", "exited"}
        /\ pc' = "boot"
        /\ argv' = av
        /\ todo' = Result(ensure_dirs(fs), NoneVal)
        /\ handler' = ""
        /\ ret' = NoneVal
        /\ exit' = 0
        /\ out' = <<>>
        /\ interrupted' = FALSE
        /\ UNCHANGED <<fs, created, procs>>

\* one effect of the running code
Step ==
    /\ todo.effects # <<>>
    /\ fs' = ApplyEffect(fs, Head(todo.effects))
    /\ out' = out \o Printed(<<Head(todo.effects)>>)
    /\ todo' = [todo EXCEPT !.effects = Tail(@)]

\* line 183: one statement of ensure_dirs
IBootStep ==
    /\ pc = "boot"
    /\ Step
    /\ UNCHANGED <<argv, handler, ret, exit, created, pc, interrupted, procs>>

\* lines 184-187: parse_args, then the call of args.func
IParse ==
    /\ pc = "boot"
    /\ todo.effects = <<>>
    /\ \E p \in {parse_args(argv)} :
          IF p.ok
          THEN /\ handler' = p.func
               /\ todo' = Dispatch(p.func, p.a, fs, argv.stdin)
               /\ pc' = "handler"
               /\ UNCHANGED <<out, exit>>
          ELSE /\ out' = Append(out, <<"usage">>)
               /\ exit' = 2
               /\ pc' = "exited"
               /\ UNCHANGED <<handler, todo>>
    /\ UNCHANGED <<fs, argv, ret, created, interrupted, procs>>

\* one statement of the handler
IHandlerStep ==
    /\ pc = "handler"
    /\ Step
    /\ UNCHANGED <<argv, handler, ret, exit, created, pc, interrupted, procs>>

\* the handler returns: rc = args.func(args), line 187
IReturn ==
    /\ pc = "handler"
    /\ todo.effects = <<>>
    /\ ret' = todo.rc
    /\ pc' = "returned"
    /\ UNCHANGED <<fs, argv, handler, exit, out, created, todo, interrupted, procs>>

\* lines 188-189, or the end of main
IExit ==
    /\ pc = "returned"
    /\ exit' = ExitStatus(ret)
    /\ pc' = "exited"
    /\ UNCHANGED <<fs, argv, handler, ret, out, created, todo, interrupted, procs>>

\* the process interrupt arrives
IInterrupt ==
    /\ pc \in {"boot", "handler", "returned"}
    /\ ~interrupted
    /\ interrupted' = TRUE
    /\ pc' = OnInterrupt(pc)
    /\ UNCHANGED <<fs, argv, handler, ret, exit, out, created, todo, procs>>

\* lines 190-192
IExcept ==
    /\ pc = "except"
    /\ out' = Append(out, <<"Interrupted.">>)
    /\ exit' = 130
    /\ pc' = "exited"
    /\ UNCHANGED <<fs, argv, handler, ret, created, todo, interrupted, procs>>

\* KeyboardInterrupt outside the try: the interpreter prints the traceback
\* and ends by SIGINT, which a shell reports as 130
IUncaught ==
    /\ pc = "uncaught"
    /\ out' = Append(out, <<"Traceback">>)
    /\ exit' = 130
    /\ pc' = "exited"
    /\ UNCHANGED <<fs, argv, handler, ret, created, todo, interrupted, procs>>

IntProcess ==
    \/ IBootStep
    \/ IParse
    \/ IHandlerStep
    \/ IReturn
    \/ IExit
    \/ IExcept
    \/ IUncaught

IntNext ==
    \/ IStart
    \/ IInterrupt
    \/ IntProcess

\* a started process keeps running: it is not starved of the processor
IntSpec == Init /\ [][IntNext]_vars /\ WF_vars(IntProcess)

(***************************************************************************)
(* Concurrent `preset new`: NumProcs processes, each running main for one  *)
(* `preset new` command line, their statements interleaved.                *)
(***************************************************************************)
ConcArgvs == {av \in PresetNewArgvs : av.name.given}

SetProc(p, rec) == procs' = [procs EXCEPT ![p] = rec]

ConcFrame == UNCHANGED <<argv, handler, ret, exit, out, created, pc, todo, interrupted>>

\* the process starts; parse_args (line 185) has no effect on the files
CStart(p) ==
    \E av \in ConcArgvs :
        /\ procs[p].pc = "idle"
        /\ SetProc(p, [procs[p] EXCEPT !.pc = "boot", !.a = parse_args(av).a])
        /\ UNCHANGED fs
        /\ ConcFrame

\* line 183: ensure_dirs of main
CBoot(p) ==
    /\ procs[p].pc = "boot"
    /\ fs' = ApplyAll(fs, ensure_dirs(fs))
    /\ SetProc(p, [procs[p] EXCEPT !.pc = "ensure"])
    /\ ConcFrame

\* line 29: ensure_dirs of preset_new
CEnsure(p) ==
    /\ procs[p].pc = "ensure"
    /\ fs' = ApplyAll(fs, ensure_dirs(fs))
    /\ SetProc(p, [procs[p] EXCEPT !.pc = "check"])
    /\ ConcFrame

\* lines 30-33: path.exists()
CCheck(p) ==
    /\ procs[p].pc = "check"
    /\ IF procs[p].a.name \in DOMAIN fs.presets
       THEN SetProc(p, [procs[p] EXCEPT !.pc = "done", !.rc = IntVal(1),
                           !.out = Append(@, <<"Preset exists", procs[p].a.name>>)])
       ELSE SetProc(p, [procs[p] EXCEPT !.pc = "write"])
    /\ UNCHANGED fs
    /\ ConcFrame

\* lines 34-44: path.write_text
CWrite(p) ==
    /\ procs[p].pc = "write"
    /\ \E a \in {procs[p].a} :
          fs' = ApplyEffect(fs, WritePreset(a.name,
                                PresetRecord(a.name, a.time_sig, a.bars, a.subdivision)))
    /\ SetProc(p, [procs[p] EXCEPT
                      !.pc = "written",
                      !.out = IF procs[p].a.interactive
                              THEN Append(@, <<"Interactive mode not implemented">>)
                              ELSE @])
    /\ ConcFrame

\* lines 45-46
CReturn(p) ==
    /\ procs[p].pc = "written"
    /\ SetProc(p, [procs[p] EXCEPT !.pc = "done", !.rc = IntVal(0),
                      !.out = Append(@, <<"Created", procs[p].a.name>>)])
    /\ UNCHANGED fs
    /\ ConcFrame

ConcNext ==
    \E p \in Procs :
        \/ CStart(p)
        \/ CBoot(p)
        \/ CEnsure(p)
        \/ CCheck(p)
        \/ CWrite(p)
        \/ CReturn(p)

ConcSpec == Init /\ [][ConcNext]_vars

(***************************************************************************)
(* The properties.                                                         *)
(***************************************************************************)
\* the namespace of the last command line (defaults filled in)
LastArgs == parse_args(argv).a

\* the preset constraints of the data model: numerator >= 1, bars >= 1,
\* subdivision in {1,2,3,4,6}
ValidPreset(rec) ==
    /\ rec.time_sig.num >= 1
    /\ rec.bars >= 1
    /\ rec.subdivision \in SupportedSubdiv

\* C1: a stored preset never changes and is never removed, whatever command
\* runs; preset_new on a name that exists returns 1; and every name holds the
\* record its first successful preset_new wrote.
C1_PresetImmutable ==
    /\ [][/\ \A n \in DOMAIN fs.presets :
                n \in DOMAIN fs'.presets /\ fs'.presets[n] = fs.presets[n]
          /\ (handler' = "preset_new" /\ argv'.name.v \in DOMAIN fs.presets)
                => ret' = IntVal(1)]_vars
    /\ [](\A n \in DOMAIN created :
                n \in DOMAIN fs.presets /\ fs.presets[n] = created[n])

\* C1 witness: preset_new was refused on a name whose stored record differs
\* from the one asked for.
C1_Witness ==
    /\ handler = "preset_new"
    /\ ret = IntVal(1)
    /\ argv.name.v \in DOMAIN fs.presets
    /\ fs.presets[argv.name.v] # Asked(argv)
    /\ fs.presets[argv.name.v] = created[argv.name.v]

\* C2: no run of run_metronome or practice_run begins with both a bar limit
\* and a minute limit.
C2_LimitsExclusive ==
    handler \in {"run_metronome", "practice_run"}
        => ~(argv.bars.given /\ argv.minutes.given)

\* the timeline inputs of a metronome command line are bad: tempo <= 0, a
\* non-positive meter part, an unsupported subdivision, swing outside [0,1)
BadTimeline(a) ==
    \/ a.bpm <= 0
    \/ a.meter.num <= 0
    \/ a.meter.den <= 0
    \/ a.subdiv \notin SupportedSubdiv
    \/ a.swing < 0
    \/ a.swing >= 10

\* C3: a metronome command line with bad timeline inputs never starts
\* run_metronome; it ends in an error.
C3_BadInputsRejected ==
    (argv.cmd = "metronome" /\ parse_args(argv).ok /\ BadTimeline(LastArgs))
        => (handler # "run_metronome" /\ exit # 0)

\* C4: every stored preset satisfies the preset constraints.
C4_StoredPresetsValid ==
    \A n \in DOMAIN fs.presets : ValidPreset(fs.presets[n])

\* C5: preset_validate returns 0 exactly when the preset exists and satisfies
\* the preset constraints.
C5_ValidateChecksSchema ==
    handler = "preset_validate"
        => (ret = IntVal(0)
              <=> (/\ argv.name.v \in DOMAIN fs.presets
                   /\ ValidPreset(fs.presets[argv.name.v])))

\* C6: no command other than calibrate changes the stored offsets, and no
\* command removes the calibration file.
C6_OffsetsOnlyByCalibrate ==
    [][/\ argv'.cmd # "calibrate" => fs'.calib.devices = fs.calib.devices
       /\ fs.calib.exists => fs'.calib.exists]_vars

\* C6 witness: with an offset stored, a preset was created (ensure_dirs ran in
\* main and in preset_new).
C6_Witness ==
    /\ fs.calib.devices # NoDevices
    /\ handler = "preset_new"
    /\ ret = IntVal(0)

\* C7: once KeyboardInterrupt is raised while the handler runs, nothing more
\* is printed but main's "Interrupted.", with which the process exits 130;
\* and it does exit.
C7_NoEventAfterInterrupt ==
    /\ [][(interrupted /\ handler # "" /\ pc # "exited")
            => \/ out' = out
               \/ /\ out' = Append(out, <<"Interrupted.">>)
                  /\ exit' = 130
                  /\ pc' = "exited"]_vars
    /\ ((interrupted /\ handler # "" /\ pc # "exited")
            ~> (pc = "exited" /\ exit = 130 /\ out[Len(out)] = <<"Interrupted.">>))

\* C7 witness: a handler was interrupted after it had printed and before it
\* had finished, and the process has exited.
C7_Witness ==
    /\ interrupted
    /\ handler # ""
    /\ pc = "exited"
    /\ exit = 130
    /\ todo.effects # <<>>
    /\ Len(out) >= 2

\* C8: a non-zero status of the handler is the status of the process; a
\* missing preset (show, validate) and an existing one (new) exit 1; the
\* process exits 0 only when the handler reported no failure.
C8_FailuresSurfaced ==
    /\ (ret.int /\ ret.v # 0) => exit = ret.v
    /\ (handler \in {"preset_show", "preset_validate"}
            /\ argv.name.v \notin DOMAIN fs.presets) => exit = 1
    /\ (handler = "preset_new" /\ out = <<<<"Preset exists", argv.name.v>>>>)
            => exit = 1
    /\ exit = 0 => (ret = NoneVal \/ ret = IntVal(0))

\* C8 witness: preset show of a name that is not in the store.
C8_Witness ==
    /\ handler = "preset_show"
    /\ argv.name.v \notin DOMAIN fs.presets
    /\ exit = 1

\* the median of the sorted intervals as a fraction [n, d]: the middle value
\* for an odd count, the mean of the two middle values for an even count
Median(sorted) ==
    LET k == Len(sorted)
    IN  IF k % 2 = 1
        THEN [n |-> sorted[(k + 1) \div 2], d |-> 1]
        ELSE [n |-> sorted[k \div 2] + sorted[(k \div 2) + 1], d |-> 2]

\* C9: with at least two taps tap_tempo reports 60 / median interval (to the
\* tenth of a BPM it prints); with fewer, "Not enough taps." and no BPM.
C9_MedianTempo ==
    handler = "tap_tempo" =>
        LET taps == ReadTaps(argv.stdin)
            med == Median(Sort(Intervals(taps)))
        IN  IF Len(taps) >= 2
            THEN out = <<<<"Tap ENTER">>, <<"BPM", BpmTenths(med.n, med.d)>>>>
            ELSE out = <<<<"Tap ENTER">>, <<"Not enough taps.">>>>

\* C10: of the processes that ran preset_new for one name, at most one
\* returned 0, and the stored preset is the one that process wrote.
C10_UniqueUnderConcurrency ==
    \A p \in Procs : \A q \in Procs \ {p} :
        (/\ procs[p].pc = "done"
         /\ procs[q].pc = "done"
         /\ procs[p].a.name = procs[q].a.name)
            => /\ ~(procs[p].rc = IntVal(0) /\ procs[q].rc = IntVal(0))
               /\ procs[p].rc = IntVal(0)
                    => fs.presets[procs[p].a.name]
                         = PresetRecord(procs[p].a.name, procs[p].a.time_sig,
                                        procs[p].a.bars, procs[p].a.subdivision)

====
